---------------------------- MODULE Spec2Model ----------------------------
(***************************************************************************)
(* Model of 8Queens/8queens_cqm.py: the script that builds the N-Queens    *)
(* constrained model (one equality, row / column / diagonal inequalities), *)
(* hands it to the hybrid sampler, filters and truncates the returned      *)
(* sample set and renders the retained samples as boards.                  *)
(*                                                                         *)
(* Each action is one top-level statement (or loop) of the script, in      *)
(* program order; pc is the position of the script.                        *)
(***************************************************************************)
EXTENDS Integers, Sequences, FiniteSets, TLC

VARIABLES N, NQ, pc, diags, cqm, raw_sampleset, feasible_sampleset,
          num_feasible, best_samples, out

vars == <<N, NQ, pc, diags, cqm, raw_sampleset, feasible_sampleset,
          num_feasible, best_samples, out>>

(***************************************************************************)
(* Bounds of the model.                                                    *)
(***************************************************************************)
\* largest board side explored exhaustively
MaxN == 3
\* largest number of queens asked for
MaxNQ == 5
\* longest sample set the sampler returns (more than the 10 kept)
MaxSamples == 12
\* a returned sample holds between NQ - MaxMiss and NQ + MaxMiss queens
MaxMiss == 1

(***************************************************************************)
(* Program constants.                                                      *)
(***************************************************************************)
\* NQ = 8
DefaultNQ == 8
\* N = 8
DefaultN == 8
\* truncate(min(10, num_feasible)) / truncate(10)
MaxShown == 10

Min(a, b) == IF a <= b THEN a ELSE b

Range(s) == {s[i] : i \in 1..Len(s)}

(***************************************************************************)
(* Python's str() of a natural number.                                     *)
(***************************************************************************)
Digit(d) ==
  CASE d = 0 -> "0" [] d = 1 -> "1" [] d = 2 -> "2" [] d = 3 -> "3"
    [] d = 4 -> "4" [] d = 5 -> "5" [] d = 6 -> "6" [] d = 7 -> "7"
    [] d = 8 -> "8" [] d = 9 -> "9"

RECURSIVE str(_)
str(n) == IF n < 10 THEN Digit(n) ELSE str(n \div 10) \o Digit(n % 10)

\* def varname(r, c): return "square_r"+str(r)+"_c"+str(c)
varname(r, c) == "square_r" \o str(r) \o "_c" \o str(c)

\* range(a, b) as a sequence
range(a, b) == [i \in 1..(IF b > a THEN b - a ELSE 0) |-> a + i - 1]

\* vnum = np.array([[r*N+c for c in range(N)] for r in range(N)])
vnum(n) == [r \in 0..(n-1) |-> [c \in 0..(n-1) |-> r * n + c]]

\* rvnum = vnum[:, ::-1]
rvnum(n) == [r \in 0..(n-1) |-> [c \in 0..(n-1) |-> vnum(n)[r][n - 1 - c]]]

\* np.diag that reads the upper diagonal whatever the sign of k
np_diag_nosign(a, n, k) ==
  IF k >= 0 THEN [i \in 1..(n - k) |-> a[i - 1][i - 1 + k]]
            ELSE [i \in 1..(n + k) |-> a[i - 1][i - 1 - k]]

\* np.diag(a, k=k).tolist() for an n x n array a and |k| < n
np_diag(a, n, k) ==
  IF k >= 0 THEN [i \in 1..(n - k) |-> a[i - 1][i - 1 + k]]
            ELSE [i \in 1..(n + k) |-> a[i - 1 - k][i - 1]]

\* variables = [dimod.Binary(varname(r,c)) for r in range(N) for c in range(N)]
variables(n) == [i \in 1..(n * n) |-> varname((i - 1) \div n, (i - 1) % n)]

\* board = {(r,c): variables[r*N+c] for c in range(N) for r in range(N)}
board(n) ==
  [rc \in (0..(n-1)) \X (0..(n-1)) |-> variables(n)[rc[1] * n + rc[2] + 1]]

\* the loop with its last offset dropped: range(-(N-2), N-2)
DiagsOf_short(a, n) ==
  LET ks == range(-(n - 2), n - 2)
  IN  [j \in 1..Len(ks) |-> np_diag(a, n, ks[j])]

\* the diagonals appended for one array a: for k in range(-(N-2), N-1)
DiagsOf(a, n) ==
  LET ks == range(-(n - 2), n - 1)
  IN  [j \in 1..Len(ks) |-> np_diag(a, n, ks[j])]

\* diags = []; for a in [vnum, rvnum]: for k in ...: diags.append(...)
BuildDiagsList(n) == DiagsOf(vnum(n), n) \o DiagsOf(rvnum(n), n)


(***************************************************************************)
(* Constraints.  A constraint is a label, the variables summed on its left *)
(* hand side (every coefficient is 1), a sense and a right hand side.      *)
(***************************************************************************)
\* the total written as an upper limit (<=) instead of an equality
BoardTotal_le(n, nq) ==
  [label |-> "board_total",
   lhs   |-> [i \in 1..(n * n) |-> board(n)[<<(i - 1) \div n, (i - 1) % n>>]],
   sense |-> "<=",
   rhs   |-> nq]

\* cqm.add_constraint(sum(board[r,c] for r in range(N) for c in range(N)) == NQ,
\*                    label="board_total")
BoardTotal(n, nq) ==
  [label |-> "board_total",
   lhs   |-> [i \in 1..(n * n) |-> board(n)[<<(i - 1) \div n, (i - 1) % n>>]],
   sense |-> "==",
   rhs   |-> nq]

\* the column limit written < 1
ColTotals_lt(n) ==
  [j \in 1..n |->
     [label |-> "col_" \o str(j - 1) \o "_total",
      lhs   |-> [i \in 1..n |-> board(n)[<<i - 1, j - 1>>]],
      sense |-> "<=",
      rhs   |-> 0]]

\* for c in range(N): add_constraint(sum(board[r,c] for r in range(N)) <= 1,
\*                                   label=f"col_{c}_total")
ColTotals(n) ==
  [j \in 1..n |->
     [label |-> "col_" \o str(j - 1) \o "_total",
      lhs   |-> [i \in 1..n |-> board(n)[<<i - 1, j - 1>>]],
      sense |-> "<=",
      rhs   |-> 1]]

\* the row loop summing board[c,r]: the columns a second time
RowTotals_cols(n) ==
  [j \in 1..n |->
     [label |-> "row_" \o str(j - 1) \o "_total",
      lhs   |-> [i \in 1..n |-> board(n)[<<i - 1, j - 1>>]],
      sense |-> "<=",
      rhs   |-> 1]]

\* for r in range(N): add_constraint(sum(board[r,c] for c in range(N)) <= 1,
\*                                   label=f"row_{r}_total")
RowTotals(n) ==
  [j \in 1..n |->
     [label |-> "row_" \o str(j - 1) \o "_total",
      lhs   |-> [i \in 1..n |-> board(n)[<<j - 1, i - 1>>]],
      sense |-> "<=",
      rhs   |-> 1]]

\* for i,d in enumerate(diags): add_constraint(sum(variables[v] for v in d) <= 1,
\*                                             label=f"diag_{i}_total")
DiagTotals(n, ds) ==
  [j \in 1..Len(ds) |->
     [label |-> "diag_" \o str(j - 1) \o "_total",
      lhs   |-> [m \in 1..Len(ds[j]) |-> variables(n)[ds[j][m] + 1]],
      sense |-> "<=",
      rhs   |-> 1]]

(***************************************************************************)
(* Samples.  A sample assigns 0 or 1 to every variable label; the sampler  *)
(* reports its energy (the value of the objective, and the script sets no  *)
(* objective) and whether it satisfies every constraint of the model.      *)
(***************************************************************************)
RECURSIVE SumOver(_, _)
SumOver(lhs, sample) ==
  IF lhs = <<>> THEN 0 ELSE sample[Head(lhs)] + SumOver(Tail(lhs), sample)

Satisfies(sample, con) ==
  IF con.sense = "==" THEN SumOver(con.lhs, sample) = con.rhs
                      ELSE SumOver(con.lhs, sample) <= con.rhs

\* d.is_feasible
Feasible(sample, model) == \A j \in 1..Len(model) : Satisfies(sample, model[j])

\* the objective is empty
Energy(sample) == 0

Labels(n) == Range(variables(n))

\* the sample with a queen exactly on the squares (numbered r*N+c) of Q
BoardOf(n, Q) ==
  LET vs == variables(n)
      on == {vs[v + 1] : v \in Q}
  IN  [l \in Range(vs) |-> IF l \in on THEN 1 ELSE 0]

Squares(n) == 0..(n * n - 1)

RECURSIVE Perms(_)
Perms(S) ==
  IF S = {} THEN {<<>>}
  ELSE UNION {{<<x>> \o p : p \in Perms(S \ {x})} : x \in S}

\* one queen in every row and every column
PermBoards(n) ==
  {BoardOf(n, {(r - 1) * n + p[r] : r \in 1..n}) : p \in Perms(0..(n - 1))}

\* The samples the sampler may return.  Boards up to MaxN: every 0/1
\* assignment whose number of queens is within MaxMiss of NQ; larger
\* boards: every board with one queen in each row and column.
Candidates(n, nq) ==
  IF n <= MaxN
    THEN {BoardOf(n, Q) : Q \in {S \in SUBSET Squares(n) :
                                   /\ Cardinality(S) >= nq - MaxMiss
                                   /\ Cardinality(S) <= nq + MaxMiss}}
    ELSE PermBoards(n)

\* the longest sample set explored for a board of side n
SampleCap(n) == IF n = 1 THEN MaxSamples ELSE IF n = 2 THEN 2 ELSE 1

Record(sample, model) ==
  [sample |-> sample, energy |-> Energy(sample),
   is_feasible |-> Feasible(sample, model)]

\* a filter that keeps every row
filter_feasible_all(ss) == ss

\* raw_sampleset.filter(lambda d: d.is_feasible): SampleSet.filter keeps the
\* rows for which the predicate holds, in their order
filter_feasible(ss) == SelectSeq(ss, LAMBDA d : d.is_feasible)

\* The orders in which an unstable sort may leave L rows: the rows' own
\* order and its reversal are explored.
TieOrders(L) == {[i \in 1..L |-> i], [i \in 1..L |-> L + 1 - i]}

\* np.argsort(record.energy), numpy's default sort kind: an order of the
\* rows with energies ascending; the sort is not stable, rows of equal
\* energy come in an unspecified order
ArgSorts(ss) ==
  {p \in TieOrders(Len(ss)) :
     \A i, j \in 1..Len(ss) : i < j => ss[p[i]].energy <= ss[p[j]].energy}

\* a truncate that cuts nothing
truncate_nocut(ss, n) ==
  {[i \in 1..Len(ss) |-> ss[p[i]]] : p \in ArgSorts(ss)}

\* dimod's SampleSet.truncate(n, sorted_by='energy') is
\* self.slice(n, sorted_by=sorted_by): the rows are ordered by
\* np.argsort(record.energy) and the first n of them are kept.
\* The set of possible results.
truncate(ss, n) ==
  {[i \in 1..Min(n, Len(ss)) |-> ss[p[i]]] : p \in ArgSorts(ss)}

(***************************************************************************)
(* Rendering.  A printed line is the sequence of the string fragments the  *)
(* script concatenates or prints without a line break.                     *)
(***************************************************************************)
\* the square looked up with row and column exchanged
RenderSquare_swapped(s, r, c) ==
  LET v == s[varname(c, r)]
      q == IF v > 0 THEN "W" ELSE "."
  IN  <<"|.", q, ".">>

\* v = s[varname(r,c)]; q = '.'; if (v > 0.0): q = 'W'; print('|.'+q+'.', end='')
RenderSquare(s, r, c) ==
  LET v == s[varname(r, c)]
      q == IF v > 0 THEN "W" ELSE "."
  IN  <<"|.", q, ".">>

RECURSIVE RenderCols(_, _, _, _)
RenderCols(s, n, r, c) ==
  IF c = n THEN <<>> ELSE RenderSquare(s, r, c) \o RenderCols(s, n, r, c + 1)

\* for c in range(N): ...; print('|')
RenderRow(s, n, r) == RenderCols(s, n, r, 0) \o <<"|">>

\* one iteration of: for i,s in enumerate(best_samples)
RenderBoard(s, n, i) ==
  <<  <<"Result ", str(i + 1), "    =====================">>  >>
  \o [r \in 1..n |-> RenderRow(s, n, r - 1)]
  \o <<  <<"=================================">>  >>

\* print(str(num_feasible)+" Feasible samples")
CountLine(k) == <<str(k), " Feasible samples">>

\* print("Warning: Did not find feasible solution")
WarningLine == <<"Warning: Did not find feasible solution">>

RECURSIVE RenderAll(_, _, _)
RenderAll(best, n, i) ==
  IF i = Len(best) THEN <<>>
  ELSE RenderBoard(best[i + 1].sample, n, i) \o RenderAll(best, n, i + 1)

(***************************************************************************)
(* The script.                                                             *)
(***************************************************************************)
Start(ns, nqs) ==
  /\ N \in ns
  /\ NQ \in nqs
  /\ pc = "diags"
  /\ diags = <<>>
  /\ cqm = <<>>
  /\ raw_sampleset = <<>>
  /\ feasible_sampleset = <<>>
  /\ num_feasible = 0
  /\ best_samples = <<>>
  /\ out = <<>>

Init == Start(1..MaxN, 0..MaxNQ)

InitClassic == Start({DefaultN}, {DefaultNQ})

\* lines 100-103
BuildDiags ==
  /\ pc = "diags"
  /\ diags' = BuildDiagsList(N)
  /\ pc' = "board_total"
  /\ UNCHANGED <<N, NQ, cqm, raw_sampleset, feasible_sampleset, num_feasible,
                 best_samples, out>>

\* line 124
AddBoardTotal ==
  /\ pc = "board_total"
  /\ cqm' = Append(cqm, BoardTotal(N, NQ))
  /\ pc' = "cols"
  /\ UNCHANGED <<N, NQ, diags, raw_sampleset, feasible_sampleset, num_feasible,
                 best_samples, out>>

\* lines 128-129
AddColTotals ==
  /\ pc = "cols"
  /\ cqm' = cqm \o ColTotals(N)
  /\ pc' = "rows"
  /\ UNCHANGED <<N, NQ, diags, raw_sampleset, feasible_sampleset, num_feasible,
                 best_samples, out>>

\* lines 133-134
AddRowTotals ==
  /\ pc = "rows"
  /\ cqm' = cqm \o RowTotals(N)
  /\ pc' = "diag_totals"
  /\ UNCHANGED <<N, NQ, diags, raw_sampleset, feasible_sampleset, num_feasible,
                 best_samples, out>>

\* lines 138-139
AddDiagTotals ==
  /\ pc = "diag_totals"
  /\ cqm' = cqm \o DiagTotals(N, diags)
  /\ pc' = "sample"
  /\ UNCHANGED <<N, NQ, diags, raw_sampleset, feasible_sampleset, num_feasible,
                 best_samples, out>>

\* lines 142-143: the sampler returns a sample set
SampleCqm ==
  /\ pc = "sample"
  /\ \E L \in 0..SampleCap(N) :
       \E ss \in [1..L -> Candidates(N, NQ)] :
         raw_sampleset' = [i \in 1..L |-> Record(ss[i], cqm)]
  /\ pc' = "filter"
  /\ UNCHANGED <<N, NQ, diags, cqm, feasible_sampleset, num_feasible,
                 best_samples, out>>

\* lines 145-148
FilterFeasible ==
  /\ pc = "filter"
  /\ LET kept == filter_feasible(raw_sampleset)
     IN  /\ feasible_sampleset' = kept
         /\ num_feasible' = Len(kept)
         /\ out' = Append(out, CountLine(Len(kept)))
  /\ pc' = "select"
  /\ UNCHANGED <<N, NQ, diags, cqm, raw_sampleset, best_samples>>

\* lines 149-154
SelectBest ==
  /\ pc = "select"
  /\ \/ /\ num_feasible > 0
        /\ best_samples' \in
             truncate(feasible_sampleset, Min(MaxShown, num_feasible))
        /\ out' = out
     \/ /\ ~(num_feasible > 0)
        /\ out' = Append(out, WarningLine)
        /\ best_samples' \in truncate(raw_sampleset, MaxShown)
  /\ pc' = "render"
  /\ UNCHANGED <<N, NQ, diags, cqm, raw_sampleset, feasible_sampleset,
                 num_feasible>>

\* lines 156-171
Render ==
  /\ pc = "render"
  /\ out' = out
            \o << <<" \n", "==============================", "BEST SAMPLE SET",
                    "==============================">>,
                  <<"SampleSet", str(Len(best_samples))>> >>
            \o RenderAll(best_samples, N, 0)
  /\ pc' = "done"
  /\ UNCHANGED <<N, NQ, diags, cqm, raw_sampleset, feasible_sampleset,
                 num_feasible, best_samples>>

Next ==
  \/ BuildDiags
  \/ AddBoardTotal
  \/ AddColTotals
  \/ AddRowTotals
  \/ AddDiagTotals
  \/ SampleCqm
  \/ FilterFeasible
  \/ SelectBest
  \/ Render

Spec == Init /\ [][Next]_vars

SpecClassic == InitClassic /\ [][Next]_vars

(***************************************************************************)
(* Vocabulary of the properties.                                           *)
(***************************************************************************)
\* the constraint set is complete
Built == pc \in {"sample", "filter", "select", "render", "done"}

\* best_samples is set
Selected == pc \in {"render", "done"}

RowOf(v) == v \div N
ColOf(v) == v % N

\* the squares (numbered r*N+c) on which a sample puts a queen
QueensOn(sample) ==
  {v \in Squares(N) : sample[varname(RowOf(v), ColOf(v))] > 0}

\* exactly NQ queens, no two on a common row, column or diagonal
Proper(sample) ==
  LET Q == QueensOn(sample)
  IN  /\ Cardinality(Q) = NQ
      /\ \A u, v \in Q :
           u # v => /\ RowOf(u) # RowOf(v)
                    /\ ColOf(u) # ColOf(v)
                    /\ ColOf(u) - RowOf(u) # ColOf(v) - RowOf(v)
                    /\ ColOf(u) + RowOf(u) # ColOf(v) + RowOf(v)

\* every 0/1 assignment of the N*N variables
AllBoards(n) == {BoardOf(n, Q) : Q \in SUBSET Squares(n)}

\* the positions of the feasible rows of the raw sample set
FeasiblePositions ==
  {i \in 1..Len(raw_sampleset) :
     raw_sampleset[i].is_feasible /\ Feasible(raw_sampleset[i].sample, cqm)}

\* the position in the raw sample set of its k-th feasible row
NthFeasible(k) ==
  CHOOSE i \in FeasiblePositions :
    Cardinality({j \in FeasiblePositions : j <= i}) = k

Occurrences(seq, x) == Cardinality({i \in 1..Len(seq) : seq[i] = x})

\* every row of a is a row of b, taken from a position of its own
SubBag(a, b) == \A x \in Range(a) : Occurrences(a, x) <= Occurrences(b, x)

\* the number of boards printed
BoardsRendered ==
  Cardinality({i \in 1..Len(out) : out[i][1] = "Result "})

\* the printed line of row r of the i-th board
BoardLine(i, r) ==
  out[Len(out) - Len(best_samples) * (N + 2) + (i - 1) * (N + 2) + 2 + r]

\* the squares of the i-th printed board that carry a queen marker
Markers(i) ==
  {rc \in (0..(N-1)) \X (0..(N-1)) : BoardLine(i, rc[1])[3 * rc[2] + 2] = "W"}

(***************************************************************************)
(* Counting the satisfying assignments without enumerating all 2^(N*N):    *)
(* the squares are decided one after the other, keeping the set of the     *)
(* partial boards that can still be completed.  A partial board is dropped *)
(* as soon as a constraint of sense <= is exceeded (no later queen lowers  *)
(* a sum) or the squares still open cannot hold the queens still missing   *)
(* (each row constraint with limit 1 admits one more queen, a square in no *)
(* such constraint one more).  Every complete board that is left is        *)
(* checked against the whole constraint set.                               *)
(***************************************************************************)
RECURSIVE TupleOf(_, _)
TupleOf(f, n) == IF n = 0 THEN <<>> ELSE Append(TupleOf(f, n - 1), f[n])

CountCtx ==
  LET vs == variables(N)
      M == Len(cqm)
      conSq == [j \in 1..M |->
                  {v \in Squares(N) : \E m \in 1..Len(cqm[j].lhs) :
                                         cqm[j].lhs[m] = vs[v + 1]}]
      conSqT == TupleOf(conSq, M)
      F == {j \in (N + 2)..Min(2 * N + 1, M) :
              cqm[j].sense = "<=" /\ cqm[j].rhs = 1}
      consOf == [i \in 1..(N * N) |->
                   {j \in 1..M : cqm[j].sense = "<=" /\ (i - 1) \in conSqT[j]}]
      cap == [i \in 1..(N * N + 1) |->
                LET open == (i - 1)..(N * N - 1)
                IN  Cardinality({j \in F : conSqT[j] \cap open # {}})
                    + Cardinality({v \in open : \A j \in F : v \notin conSqT[j]})]
  IN  [conSq |-> conSqT, consOf |-> TupleOf(consOf, N * N),
       cap |-> TupleOf(cap, N * N + 1)]

\* the partial boards left once square sq is decided, from those left before
Decide(frontier, sq, ctx) ==
  LET fits(q) ==
        \A j \in ctx.consOf[sq + 1] :
          Cardinality(ctx.conSq[j] \cap q) <= cqm[j].rhs
      reach(q) == NQ - Cardinality(q) <= ctx.cap[sq + 2]
  IN  {q \in frontier : reach(q)}
      \cup {q \in {p \cup {sq} : p \in frontier} : fits(q) /\ reach(q)}

RECURSIVE DecideFrom(_, _, _)
DecideFrom(frontier, sq, ctx) ==
  IF frontier = {} \/ sq = N * N THEN frontier
  ELSE DecideFrom(Decide(frontier, sq, ctx), sq + 1, ctx)

\* the number of 0/1 assignments that satisfy every constraint of cqm
NumSatisfying ==
  Cardinality({q \in DecideFrom({{}}, 0, CountCtx) :
                 Feasible(BoardOf(N, q), cqm)})

\* on the boards small enough to enumerate, the count is the plain one
CountIsExact ==
  (pc = "sample" /\ N <= MaxN)
    => NumSatisfying = Cardinality({a \in AllBoards(N) : Feasible(a, cqm)})

(***************************************************************************)
(* The geometry of the board, stated without the index arithmetic of the   *)
(* script.                                                                 *)
(***************************************************************************)
MainDiag(k) == {v \in Squares(N) : ColOf(v) - RowOf(v) = k}
AntiDiag(t) == {v \in Squares(N) : ColOf(v) + RowOf(v) = t}

GeoDiags ==
  {MainDiag(k) : k \in (-(N - 1))..(N - 1)}
  \cup {AntiDiag(t) : t \in 0..(2 * N - 2)}

RowLabels(r) == {varname(r, c) : c \in 0..(N - 1)}
ColLabels(c) == {varname(r, c) : r \in 0..(N - 1)}
GroupLabels(d) == {varname(RowOf(d[m]), ColOf(d[m])) : m \in 1..Len(d)}

LabelledRow(j) == \E r \in 0..(N - 1) : cqm[j].label = "row_" \o str(r) \o "_total"
LabelledCol(j) == \E c \in 0..(N - 1) : cqm[j].label = "col_" \o str(c) \o "_total"
LabelledDiag(j) ==
  \E i \in 0..(Len(diags) - 1) : cqm[j].label = "diag_" \o str(i) \o "_total"

\* the number of diagonals of either direction with two squares or more
NumDiagonals == IF N >= 2 THEN 2 * (2 * N - 3) ELSE 0

Unsatisfiable == \A a \in AllBoards(N) : ~Feasible(a, cqm)

(***************************************************************************)
(* C1.  A 0/1 assignment satisfies every constraint of the built model if  *)
(* and only if it places exactly NQ queens, no two of them on a common     *)
(* row, column or diagonal of either direction.  Checked for every         *)
(* assignment of the board when the model is handed to the sampler, and    *)
(* for the feasibility flag of every returned sample.                      *)
(***************************************************************************)
C1_FeasibleIffProper ==
  Built =>
    /\ pc = "sample" =>
         \A a \in AllBoards(N) : Feasible(a, cqm) <=> Proper(a)
    /\ pc = "filter" =>
         \A i \in 1..Len(raw_sampleset) :
           raw_sampleset[i].is_feasible <=> Proper(raw_sampleset[i].sample)

\* a feasible sample and an infeasible one were returned for 2 queens on 3 x 3
C1_Witness ==
  /\ N = 3 /\ NQ = 2 /\ pc = "filter"
  /\ \E i \in 1..Len(raw_sampleset) : raw_sampleset[i].is_feasible

(***************************************************************************)
(* C2.  For N = 8 and NQ = 8 the built model is satisfiable and exactly 92 *)
(* assignments of the 64 variables satisfy all its constraints together.   *)
(***************************************************************************)
C2_ClassicHas92 ==
  (pc = "sample" /\ N = DefaultN /\ NQ = DefaultNQ) => NumSatisfying = 92

\* the sampler returned a feasible sample of the classic problem
C2_Witness ==
  /\ N = DefaultN /\ NQ = DefaultNQ /\ pc = "filter"
  /\ \E i \in 1..Len(raw_sampleset) : raw_sampleset[i].is_feasible

(***************************************************************************)
(* C3.  For N >= 2 every group of the diagonal enumeration has at least    *)
(* two squares and is exactly one geometric diagonal (main or anti         *)
(* direction); no diagonal is listed twice, every diagonal of two squares  *)
(* or more is listed, and so every square is in at most two groups.        *)
(***************************************************************************)
C3_GroupsAreDiagonals ==
  (pc = "board_total" /\ N >= 2) =>
    /\ \A j \in 1..Len(diags) :
         /\ Len(diags[j]) >= 2
         /\ Cardinality(Range(diags[j])) = Len(diags[j])
         /\ Range(diags[j]) \in GeoDiags
    /\ \A i, j \in 1..Len(diags) : i # j => Range(diags[i]) # Range(diags[j])
    /\ \A D \in GeoDiags :
         Cardinality(D) >= 2 => \E j \in 1..Len(diags) : Range(diags[j]) = D
    /\ \A v \in Squares(N) :
         Cardinality({j \in 1..Len(diags) : v \in Range(diags[j])}) <= 2

\* the diagonals of the 3 x 3 board have been enumerated
C3_Witness == N = 3 /\ pc = "board_total" /\ Len(diags) = 6

(***************************************************************************)
(* C6.  For NQ > N*N no 0/1 assignment satisfies the built model, so every *)
(* sample returned for such parameters is infeasible.                      *)
(***************************************************************************)
C6_TooManyQueensUnsat ==
  (Built /\ NQ > N * N) =>
    /\ pc = "sample" => Unsatisfiable
    /\ \A i \in 1..Len(raw_sampleset) : ~raw_sampleset[i].is_feasible

\* samples were returned for more queens than squares
C6_Witness == NQ > N * N /\ pc = "done" /\ Len(raw_sampleset) > 0

(***************************************************************************)
(* C8.  The model built with NQ = 0 and the model built with NQ = 1 are    *)
(* satisfiable for every N >= 1.                                           *)
(***************************************************************************)
C8_ZeroAndOneSat ==
  (pc = "sample" /\ NQ \in {0, 1}) => \E a \in AllBoards(N) : Feasible(a, cqm)

\* a feasible sample was returned for one queen on 3 x 3
C8_Witness ==
  /\ N = 3 /\ NQ = 1 /\ pc = "filter"
  /\ \E i \in 1..Len(raw_sampleset) : raw_sampleset[i].is_feasible

(***************************************************************************)
(* C9.  The built model holds exactly one equality (all N*N variables sum  *)
(* to NQ), exactly N row and N column constraints (<= 1 over the N         *)
(* variables of the row or column; every square is in exactly one of       *)
(* each), exactly one <= 1 constraint per diagonal group, 2*(2N-3) of them *)
(* for N >= 2 and none for N = 1, and no label twice.                      *)
(***************************************************************************)
C9_ConstraintCensus ==
  pc = "sample" =>
    LET M == 1..Len(cqm)
    IN  /\ Len(cqm) = 1 + 2 * N + NumDiagonals
        /\ Cardinality({j \in M : cqm[j].sense = "=="}) = 1
        /\ \A j \in M :
             cqm[j].sense = "==" => /\ cqm[j].rhs = NQ
                                    /\ Len(cqm[j].lhs) = N * N
                                    /\ Range(cqm[j].lhs) = Labels(N)
        /\ \A j \in M : cqm[j].sense # "==" => cqm[j].sense = "<=" /\ cqm[j].rhs = 1
        /\ Cardinality({j \in M : LabelledRow(j)}) = N
        /\ Cardinality({j \in M : LabelledCol(j)}) = N
        /\ Cardinality({j \in M : LabelledDiag(j)}) = NumDiagonals
        /\ Len(diags) = NumDiagonals
        /\ \A r \in 0..(N - 1) :
             \E j \in M : /\ cqm[j].label = "row_" \o str(r) \o "_total"
                          /\ cqm[j].sense = "<="
                          /\ Len(cqm[j].lhs) = N
                          /\ Range(cqm[j].lhs) = RowLabels(r)
        /\ \A c \in 0..(N - 1) :
             \E j \in M : /\ cqm[j].label = "col_" \o str(c) \o "_total"
                          /\ cqm[j].sense = "<="
                          /\ Len(cqm[j].lhs) = N
                          /\ Range(cqm[j].lhs) = ColLabels(c)
        /\ \A i \in 1..Len(diags) :
             \E j \in M : /\ cqm[j].label = "diag_" \o str(i - 1) \o "_total"
                          /\ cqm[j].sense = "<="
                          /\ Len(cqm[j].lhs) = Len(diags[i])
                          /\ Range(cqm[j].lhs) = GroupLabels(diags[i])
        /\ \A l \in Labels(N) :
             /\ Cardinality({j \in M : LabelledRow(j) /\ l \in Range(cqm[j].lhs)}) = 1
             /\ Cardinality({j \in M : LabelledCol(j) /\ l \in Range(cqm[j].lhs)}) = 1
        /\ Cardinality({cqm[j].label : j \in M}) = Len(cqm)

\* the model of the 3 x 3 board is complete
C9_Witness == N = 3 /\ pc = "sample" /\ Len(cqm) = 13

(***************************************************************************)
(* C10.  The model is unsatisfiable for every NQ > N, and for NQ = N when  *)
(* N is 2 or 3; then every returned sample is infeasible and the script    *)
(* takes the warning path.                                                 *)
(***************************************************************************)
C10_MoreQueensThanRowsUnsat ==
  (Built /\ (NQ > N \/ (NQ = N /\ N \in {2, 3}))) =>
    /\ pc = "sample" => Unsatisfiable
    /\ \A i \in 1..Len(raw_sampleset) : ~raw_sampleset[i].is_feasible
    /\ Selected => /\ num_feasible = 0
                   /\ \E i \in 1..Len(out) : out[i] = WarningLine

\* three queens were asked for on 3 x 3 and samples came back
C10_Witness == N = 3 /\ NQ = 3 /\ pc = "done" /\ Len(raw_sampleset) > 0

(***************************************************************************)
(* C4, as claimed.  When at least one returned sample is feasible, the     *)
(* samples kept for rendering are exactly the first min(10, num_feasible)  *)
(* feasible samples in the sampler's own order, never more than 10, and    *)
(* the warning is not printed.                                             *)
(***************************************************************************)
C4_FirstFeasibleInOrder ==
  (Selected /\ FeasiblePositions # {}) =>
    /\ Len(best_samples) = Min(MaxShown, Cardinality(FeasiblePositions))
    /\ \A k \in 1..Len(best_samples) :
         best_samples[k] = raw_sampleset[NthFeasible(k)]
    /\ \A i \in 1..Len(out) : out[i] # WarningLine
    /\ pc = "done" => BoardsRendered = Len(best_samples)

(***************************************************************************)
(* C4, amended.  When at least one returned sample is feasible, exactly    *)
(* min(10, num_feasible) samples are kept and rendered, never more than    *)
(* 10; each is a feasible sample taken from a position of its own in the   *)
(* returned set, no infeasible sample is kept, and the warning is not      *)
(* printed.  Which feasible samples are kept, and in which order, is left  *)
(* to the sort by energy inside truncate.                                  *)
(***************************************************************************)
C4_FeasibleOnlyAtMostTen ==
  (Selected /\ FeasiblePositions # {}) =>
    /\ Len(best_samples) = Min(MaxShown, Cardinality(FeasiblePositions))
    /\ Len(best_samples) <= MaxShown
    /\ \A k \in 1..Len(best_samples) :
         /\ best_samples[k].is_feasible
         /\ Feasible(best_samples[k].sample, cqm)
    /\ SubBag(best_samples, raw_sampleset)
    /\ \A i \in 1..Len(out) : out[i] # WarningLine
    /\ pc = "done" => BoardsRendered = Len(best_samples)

\* more than 10 feasible samples and an infeasible one came back
C4_Witness ==
  /\ pc = "done"
  /\ Cardinality(FeasiblePositions) > MaxShown
  /\ \E i \in 1..Len(raw_sampleset) : ~raw_sampleset[i].is_feasible

(***************************************************************************)
(* C5, as claimed.  When no returned sample is feasible the script prints  *)
(* "0 Feasible samples", prints the warning (and only then), and renders   *)
(* exactly min(10, total) boards: the head of the raw sample set in the    *)
(* sampler's order.                                                        *)
(***************************************************************************)
C5_FallbackIsRawHead ==
  Selected =>
    /\ (\E i \in 1..Len(out) : out[i] = WarningLine) <=> FeasiblePositions = {}
    /\ FeasiblePositions = {} =>
         /\ out[1] = <<"0", " Feasible samples">>
         /\ best_samples =
              SubSeq(raw_sampleset, 1, Min(MaxShown, Len(raw_sampleset)))
         /\ pc = "done" => BoardsRendered = Min(MaxShown, Len(raw_sampleset))

(***************************************************************************)
(* C5, amended.  When no returned sample is feasible the script prints     *)
(* "0 Feasible samples", prints the warning (and only then), and renders   *)
(* exactly min(10, total) boards, each a returned sample taken from a      *)
(* position of its own.  Which samples, and in which order, is left to the *)
(* sort by energy inside truncate.                                         *)
(***************************************************************************)
C5_FallbackShowsTenRaw ==
  Selected =>
    /\ (\E i \in 1..Len(out) : out[i] = WarningLine) <=> FeasiblePositions = {}
    /\ FeasiblePositions = {} =>
         /\ out[1] = <<"0", " Feasible samples">>
         /\ Len(best_samples) = Min(MaxShown, Len(raw_sampleset))
         /\ SubBag(best_samples, raw_sampleset)
         /\ pc = "done" => BoardsRendered = Min(MaxShown, Len(raw_sampleset))

\* more than 10 samples came back, none of them feasible
C5_Witness ==
  /\ pc = "done"
  /\ FeasiblePositions = {}
  /\ Len(raw_sampleset) > MaxShown

(***************************************************************************)
(* C7.  For each kept sample N rows of N squares are printed, and the      *)
(* square (r, c) carries the queen marker if and only if the value of      *)
(* variable square_r{r}_c{c} is greater than 0; for a sample that          *)
(* satisfies the model the board shows exactly NQ markers, at most one in  *)
(* each printed row and in each printed column.                            *)
(***************************************************************************)
C7_MarkersAreQueens ==
  pc = "done" =>
    /\ Len(out) >= Len(best_samples) * (N + 2)
    /\ \A i \in 1..Len(best_samples) :
         LET s == best_samples[i].sample
         IN  /\ \A r \in 0..(N - 1) :
                  /\ Len(BoardLine(i, r)) = 3 * N + 1
                  /\ \A c \in 0..(N - 1) :
                       /\ BoardLine(i, r)[3 * c + 2] \in {"W", "."}
                       /\ BoardLine(i, r)[3 * c + 2] = "W"
                            <=> s["square_r" \o str(r) \o "_c" \o str(c)] > 0
             /\ Feasible(s, cqm) =>
                  /\ Cardinality(Markers(i)) = NQ
                  /\ \A a, b \in Markers(i) :
                       a # b => a[1] # b[1] /\ a[2] # b[2]

\* a board with two non-attacking queens on 3 x 3 was rendered
C7_Witness ==
  /\ N = 3 /\ NQ = 2 /\ pc = "done"
  /\ \E i \in 1..Len(best_samples) : best_samples[i].is_feasible

=============================================================================
